---- MODULE Spec2Model ----
(***************************************************************************)
(* Model of starlette/responses.py: the response variants (Response,       *)
(* HTMLResponse, PlainTextResponse, JSONResponse, RedirectResponse,        *)
(* TemplateResponse, StreamingResponse, FileResponse) and the sequence of  *)
(* ASGI events each of them hands to `send`.                               *)
(*                                                                         *)
(* Bytes are sequences of integers 0..255, text is a sequence of code      *)
(* points, header names and values are strings.  One response object is    *)
(* constructed and then emitted once; every `await` of the emission call   *)
(* is one step, and every awaited call may raise.                          *)
(***************************************************************************)
EXTENDS Integers, Sequences, FiniteSets, TLC

(***************************************************************************)
(* Bounds of the model.                                                    *)
(***************************************************************************)
MaxTextLen == 2
MaxChunks == 2
MaxFileLen == 4
MaxChunkSize == 2
MaxUrlLen == 2

(***************************************************************************)
(* Small input alphabets.                                                  *)
(***************************************************************************)
\* 'A', e-acute (2 bytes in utf-8, 1 in latin-1), euro sign (3 bytes in
\* utf-8, not encodable in latin-1)
CodePoints == {65, 233, 8364}
ByteValues == {0, 255}
StatusCodes == {200, 404}
Backgrounds == {"none", "ok", "raises"}

SeqsUpTo(S, n) == UNION {[1..k -> S] : k \in 0..n}

Texts == SeqsUpTo(CodePoints, MaxTextLen)
ByteStrings == SeqsUpTo(ByteValues, MaxTextLen)

\* header dicts a caller may pass to a constructor (name, value), in
\* insertion order
CallerHeaders ==
    { <<>>,
      << <<"x-custom", "v">> >>,
      << <<"Content-Length", "99">> >>,
      << <<"content-type", "c/t">> >>,
      << <<"x-custom", "v">>, <<"Content-Type", "c/t">>, <<"content-length", "99">> >> }

(***************************************************************************)
(* str.lower() on the header names that occur.                             *)
(***************************************************************************)
Lower(name) ==
    CASE name = "Content-Length" -> "content-length"
      [] name = "Content-Type" -> "content-type"
      [] name = "Location" -> "location"
      [] name = "Set-Cookie" -> "set-cookie"
      [] OTHER -> name

(***************************************************************************)
(* str(n) for a non-negative integer: its decimal digits.                  *)
(***************************************************************************)
Digit(d) ==
    CASE d = 0 -> "0" [] d = 1 -> "1" [] d = 2 -> "2" [] d = 3 -> "3"
      [] d = 4 -> "4" [] d = 5 -> "5" [] d = 6 -> "6" [] d = 7 -> "7"
      [] d = 8 -> "8" [] d = 9 -> "9"

RECURSIVE Str(_)
Str(n) == IF n < 10 THEN Digit(n) ELSE Str(n \div 10) \o Digit(n % 10)

(***************************************************************************)
(* str.encode(charset) for the charsets "utf-8" and "latin-1".             *)
(***************************************************************************)
EncodeChar(cp, cs) ==
    IF cs = "latin-1" THEN <<cp>>
    ELSE IF cp < 128 THEN <<cp>>
    ELSE IF cp < 2048 THEN <<192 + (cp \div 64), 128 + (cp % 64)>>
    ELSE <<224 + (cp \div 4096), 128 + ((cp \div 64) % 64), 128 + (cp % 64)>>

Encodable(text, cs) ==
    cs = "latin-1" => \A i \in 1..Len(text) : text[i] < 256

RECURSIVE Encode(_, _)
Encode(text, cs) ==
    IF text = <<>> THEN <<>>
    ELSE EncodeChar(Head(text), cs) \o Encode(Tail(text), cs)

(***************************************************************************)
(* MutableHeaders: an ordered list of (name, value) entries with           *)
(* case-insensitive presence tests.                                        *)
(***************************************************************************)
MutableHeaders(h) == h

HeadersContains(h, name) ==
    \E i \in 1..Len(h) : Lower(h[i][1]) = Lower(name)

HeadersAppend(h, name, value) == Append(h, <<name, value>>)

HeadersSetDefault(h, name, value) ==
    IF HeadersContains(h, name) THEN h ELSE Append(h, <<name, value>>)

HeadersSetItem(h, name, value) ==
    IF HeadersContains(h, name)
    THEN LET first == CHOOSE i \in 1..Len(h) :
                        /\ Lower(h[i][1]) = Lower(name)
                        /\ \A j \in 1..(i - 1) : Lower(h[j][1]) # Lower(name)
             idx == {i \in 1..Len(h) : i = first \/ Lower(h[i][1]) # Lower(name)}
             F[i \in 0..Len(h)] ==
                 IF i = 0 THEN <<>>
                 ELSE IF i \notin idx THEN F[i - 1]
                 ELSE IF i = first THEN Append(F[i - 1], <<name, value>>)
                 ELSE Append(F[i - 1], h[i])
         IN  F[Len(h)]
    ELSE Append(h, <<name, value>>)

(***************************************************************************)
(* ASGI events.  `keys` is the set of keys the message dict carries; a     *)
(* field whose key is absent holds a filler value.                         *)
(***************************************************************************)
StartEvent(status, hdrs) ==
    [type |-> "http.response.start", keys |-> {"type", "status", "headers"},
     status |-> status, headers |-> hdrs, body |-> <<>>, more_body |-> FALSE,
     template |-> "", context |-> ""]

BodyEvent(b) ==
    [type |-> "http.response.body", keys |-> {"type", "body"},
     status |-> 0, headers |-> <<>>, body |-> b, more_body |-> FALSE,
     template |-> "", context |-> ""]

BodyEventMore(b, more) ==
    [type |-> "http.response.body", keys |-> {"type", "body", "more_body"},
     status |-> 0, headers |-> <<>>, body |-> b, more_body |-> more,
     template |-> "", context |-> ""]

BodyEventBare ==
    [type |-> "http.response.body", keys |-> {"type"},
     status |-> 0, headers |-> <<>>, body |-> <<>>, more_body |-> FALSE,
     template |-> "", context |-> ""]

TemplateEvent(name, ctx) ==
    [type |-> "http.response.template", keys |-> {"type", "template", "context"},
     status |-> 0, headers |-> <<>>, body |-> <<>>, more_body |-> FALSE,
     template |-> name, context |-> ctx]

(***************************************************************************)
(* State.                                                                  *)
(***************************************************************************)
VARIABLES
    \* fields of the response object
    variant,          \* class of the object, "none" before construction
    content,          \* self.content
    status_code,      \* self.status_code
    headers,          \* self.headers (MutableHeaders)
    media_type,       \* self.media_type, "none" for None
    charset,          \* self.charset
    background,       \* self.background: "none", "ok" or "raises"
    template,         \* self.template_name and self.context
    body_iterator,    \* self.body_iterator: what the producer has yet to do
    path,             \* the file-system object self.path names
    stat_result,      \* self.stat_result
    send_header_only, \* self.send_header_only
    chunk_size,       \* self.chunk_size
    args,             \* arguments the constructor was called with
    \* the request
    scope,            \* the scope of the request the response answers
    \* the emission call
    pc,               \* position of __call__
    body,             \* local `body`
    built,            \* local `headers` (result of build_headers)
    sent,             \* events accepted by `send`, in order
    err,              \* exception that left __call__, "none" if none
    bg_calls,         \* number of invocations of the background task
    chunk,            \* local `chunk`
    more_body,        \* local `more_body`
    file,             \* the file handle: open or not, position, reads and opens so far
    \* the process and the caller
    ujson,            \* the ujson module: "absent", or how its dumps treats NaN
    cookie_calls,     \* the set_cookie and delete_cookie calls made, in order
    other             \* a second response, while this one is the one that runs

baseVars == <<variant, content, status_code, media_type, charset, background>>
extVars == <<template, body_iterator, path, stat_result, send_header_only, chunk_size,
            args, scope>>
objVars == <<baseVars, headers, extVars>>
fileVars == <<chunk, more_body, file>>
callVars == <<pc, body, built, sent, err, bg_calls, fileVars>>
auxVars == <<ujson, cookie_calls, other>>
vars == <<objVars, callVars, auxVars>>

NoTemplate == [name |-> "", context |-> ""]
NoProducer == [async |-> TRUE, chunks |-> <<>>, raises |-> FALSE]
NoPath == [kind |-> "missing", data |-> <<>>, mtime |-> 0]
NoStat == [present |-> FALSE, size |-> 0, mode |-> "none", mtime |-> 0]
NoScope == [method |-> "GET", extensions |-> {}, app |-> [ok |-> TRUE, text |-> <<>>]]
NoArgs == [headers |-> <<>>, url |-> <<>>, status_given |-> FALSE, method |-> "none"]
NoFile == [open |-> FALSE, pos |-> 0, reads |-> 0, opens |-> 0]

NoContent == [kind |-> "none", val |-> <<>>]

Init ==
    /\ variant = "none"
    /\ content = NoContent
    /\ status_code = 0
    /\ headers = <<>>
    /\ media_type = "none"
    /\ charset = "utf-8"
    /\ background = "none"
    /\ template = NoTemplate
    /\ body_iterator = NoProducer
    /\ path = NoPath
    /\ stat_result = NoStat
    /\ send_header_only = FALSE
    /\ chunk_size = 4096
    /\ args = NoArgs
    /\ scope = NoScope
    /\ pc = "new"
    /\ body = <<>>
    /\ built = <<>>
    /\ sent = <<>>
    /\ err = "none"
    /\ bg_calls = 0
    /\ chunk = <<>>
    /\ more_body = FALSE
    /\ file = NoFile
    /\ ujson = "absent"
    /\ cookie_calls = <<>>
    /\ other = <<>>

(***************************************************************************)
(* Inputs of the constructors.                                             *)
(***************************************************************************)
Contents ==
    {NoContent, [kind |-> "other", val |-> <<>>]}
    \cup {[kind |-> "bytes", val |-> b] : b \in ByteStrings}
    \cup {[kind |-> "text", val |-> t] : t \in Texts}

\* values json.dumps is given: lists of the scalars 1, NaN, Infinity, "e-acute"
JsonScalars == {"one", "nan", "inf", "e_acute"}
JsonContents == {[kind |-> "json", val |-> v] : v \in SeqsUpTo(JsonScalars, MaxTextLen)}

MediaTypeArgs == {"none", "image/png", "text/css"}

\* the class attribute media_type
ClassMediaType(cls) ==
    CASE cls = "HTMLResponse" -> "text/html"
      [] cls = "PlainTextResponse" -> "text/plain"
      [] cls = "JSONResponse" -> "application/json"
      [] cls = "UJSONResponse" -> "application/json"
      [] OTHER -> "none"

StartsWith(s, prefix) ==
    Len(s) >= Len(prefix) /\ SubSeq(s, 1, Len(prefix)) = prefix

(***************************************************************************)
(* json.dumps(content, ensure_ascii=False, allow_nan=False, indent=None,   *)
(* separators=(",", ":")) of a list, as text.                              *)
(***************************************************************************)
JsonFinite(c) == \A i \in 1..Len(c.val) : c.val[i] \notin {"nan", "inf"}

JsonScalarText(v) ==
    CASE v = "one" -> <<49>>
      [] v = "e_acute" -> <<34, 233, 34>>
      [] v = "nan" -> <<78, 97, 78>>
      [] v = "inf" -> <<73, 110, 102, 105, 110, 105, 116, 121>>

RECURSIVE JsonItems(_)
JsonItems(v) ==
    IF v = <<>> THEN <<>>
    ELSE IF Len(v) = 1 THEN JsonScalarText(v[1])
    ELSE JsonScalarText(v[1]) \o <<44>> \o JsonItems(Tail(v))

JsonDumps(c) == <<91>> \o JsonItems(c.val) \o <<93>>

\* the classes whose render serializes the content to JSON
JsonClasses == {"JSONResponse", "UJSONResponse"}

\* the ujson module of the process: not installed, or installed with a
\* dumps that raises on NaN and the infinities, or with one that writes
\* them as the tokens NaN and Infinity
UjsonModules == {"absent", "rejects_nan", "emits_nan"}

\* ujson.dumps(content, ensure_ascii=False) of a list, as text
UjsonDumps(c) == <<91>> \o JsonItems(c.val) \o <<93>>

\* render that encodes text as latin-1 whatever the charset
render_latin1(cls, c, cs) ==
    IF cls = "UJSONResponse" THEN Encode(UjsonDumps(c), "utf-8")
    ELSE IF cls = "JSONResponse" THEN Encode(JsonDumps(c), "utf-8")
    ELSE CASE c.kind = "none" -> <<>>
           [] c.kind = "bytes" -> c.val
           [] OTHER -> Encode(c.val, "latin-1")

(***************************************************************************)
(* render: the exception it raises ("none" if it returns) and the bytes    *)
(* it returns.                                                             *)
(***************************************************************************)
RenderError(cls, c, cs) ==
    IF cls = "UJSONResponse"
    THEN IF ujson = "absent" THEN "AssertionError"
         ELSE IF JsonFinite(c) \/ ujson = "emits_nan" THEN "none"
         ELSE "OverflowError"
    ELSE IF cls = "JSONResponse"
    THEN IF JsonFinite(c) THEN "none" ELSE "ValueError"
    ELSE CASE c.kind \in {"none", "bytes"} -> "none"
           [] c.kind = "text" -> IF Encodable(c.val, cs) THEN "none" ELSE "UnicodeEncodeError"
           [] OTHER -> "AttributeError"

render(cls, c, cs) ==
    IF cls = "UJSONResponse" THEN Encode(UjsonDumps(c), "utf-8")
    ELSE IF cls = "JSONResponse" THEN Encode(JsonDumps(c), "utf-8")
    ELSE CASE c.kind = "none" -> <<>>
           [] c.kind = "bytes" -> c.val
           [] OTHER -> Encode(c.val, cs)

\* build_headers that tests `body` for truth instead of `body is not None`
build_headers_truthy(h, mt, cs, has_body, b) ==
    LET cl == IF ~HeadersContains(h, "Content-Length") /\ has_body /\ b # <<>>
              THEN << <<"content-length", Str(Len(b))>> >>
              ELSE <<>>
        ct == IF ~HeadersContains(h, "Content-Type") /\ mt # "none"
              THEN << <<"content-type",
                        IF StartsWith(mt, "text/") THEN mt \o "; charset=" \o cs ELSE mt>> >>
              ELSE <<>>
    IN  cl \o ct \o h

\* build_headers that adds the content type without looking for one
build_headers_always_type(h, mt, cs, has_body, b) ==
    LET cl == IF ~HeadersContains(h, "Content-Length") /\ has_body
              THEN << <<"content-length", Str(Len(b))>> >>
              ELSE <<>>
        ct == IF mt # "none"
              THEN << <<"content-type",
                        IF StartsWith(mt, "text/") THEN mt \o "; charset=" \o cs ELSE mt>> >>
              ELSE <<>>
    IN  cl \o ct \o h

(***************************************************************************)
(* build_headers(body); has_body is FALSE when body is None.               *)
(***************************************************************************)
build_headers(h, mt, cs, has_body, b) ==
    LET cl == IF ~HeadersContains(h, "Content-Length") /\ has_body
              THEN << <<"content-length", Str(Len(b))>> >>
              ELSE <<>>
        ct == IF ~HeadersContains(h, "Content-Type") /\ mt # "none"
              THEN << <<"content-type",
                        IF StartsWith(mt, "text/") THEN mt \o "; charset=" \o cs ELSE mt>> >>
              ELSE <<>>
    IN  cl \o ct \o h

(***************************************************************************)
(* Constructors.                                                           *)
(***************************************************************************)
BaseClasses ==
    {"Response", "HTMLResponse", "PlainTextResponse", "JSONResponse", "UJSONResponse"}

ResponseInit ==
    /\ pc = "new"
    /\ \E cls \in BaseClasses, st \in StatusCodes, h \in CallerHeaders,
          mt \in MediaTypeArgs, bg \in Backgrounds :
         \E c \in (IF cls \in JsonClasses THEN JsonContents ELSE Contents),
            uj \in (IF cls = "UJSONResponse" THEN UjsonModules ELSE {ujson}) :
           /\ variant' = cls
           /\ content' = c
           /\ status_code' = st
           /\ headers' = MutableHeaders(h)
           /\ media_type' = IF mt # "none" THEN mt ELSE ClassMediaType(cls)
           /\ background' = bg
           /\ args' = [NoArgs EXCEPT !.headers = h, !.status_given = TRUE]
           /\ ujson' = uj
    /\ pc' = "constructed"
    /\ UNCHANGED <<charset, template, body_iterator, path, stat_result, send_header_only,
                   chunk_size, scope, body, built, sent, err, bg_calls, fileVars,
                   cookie_calls, other>>

\* a send whose failure still lets the background task run
Send_then_background(ev, next_pc) ==
    \/ /\ sent' = Append(sent, ev)
       /\ pc' = next_pc
       /\ err' = err
    \/ /\ sent' = sent
       /\ pc' = "background"
       /\ err' = "SendError"

(***************************************************************************)
(* `await send(message)`: the host accepts the event or raises.            *)
(***************************************************************************)
Send(ev, next_pc) ==
    \/ /\ sent' = Append(sent, ev)
       /\ pc' = next_pc
       /\ err' = err
    \/ /\ sent' = sent
       /\ pc' = "failed"
       /\ err' = "SendError"

AfterBody == IF background = "none" THEN "done" ELSE "background"

\* `if self.background is not None: await self.background()`
RunBackground ==
    /\ pc = "background"
    /\ bg_calls' = bg_calls + 1
    /\ IF background = "raises"
       THEN pc' = "failed" /\ err' = "BackgroundError"
       ELSE pc' = "done" /\ err' = err

(***************************************************************************)
(* Response.__call__                                                       *)
(***************************************************************************)
CallsResponse == variant \in BaseClasses \cup {"RedirectResponse"}

ResponseCall ==
    /\ pc = "constructed"
    /\ CallsResponse
    /\ LET e == RenderError(variant, content, charset)
           b == render(variant, content, charset)
       IN  IF e # "none"
           THEN /\ pc' = "failed"
                /\ err' = e
                /\ UNCHANGED <<body, built>>
           ELSE /\ body' = b
                /\ built' = build_headers(headers, media_type, charset, TRUE, b)
                /\ pc' = "send_start"
                /\ err' = err
    /\ UNCHANGED <<objVars, sent, bg_calls, fileVars, auxVars>>

ResponseSendStart ==
    /\ pc = "send_start"
    /\ CallsResponse
    /\ Send(StartEvent(status_code, built), "send_body")
    /\ UNCHANGED <<objVars, body, built, bg_calls, fileVars, auxVars>>

ResponseSendBody ==
    /\ pc = "send_body"
    /\ CallsResponse
    /\ Send(BodyEvent(body), AfterBody)
    /\ UNCHANGED <<objVars, body, built, bg_calls, fileVars, auxVars>>

ResponseBackground ==
    /\ CallsResponse
    /\ RunBackground
    /\ UNCHANGED <<objVars, body, built, sent, fileVars, auxVars>>

(***************************************************************************)
(* urllib.parse.quote_plus(string, safe) on text given as a sequence of    *)
(* one-character strings.                                                  *)
(***************************************************************************)
UrlChars == {"a", " ", "?", "=", "+", "\"", "e_acute"}
ExampleUrl == <<"/", "a", " ", "b", "?", "x", "=", "1">>
Urls == SeqsUpTo(UrlChars, MaxUrlLen) \cup {ExampleUrl}

\* ord(ch)
Ord(ch) ==
    CASE ch = " " -> 32 [] ch = "\"" -> 34 [] ch = "+" -> 43 [] ch = "/" -> 47
      [] ch = "1" -> 49 [] ch = "=" -> 61 [] ch = "?" -> 63 [] ch = "a" -> 97
      [] ch = "b" -> 98 [] ch = "x" -> 120 [] ch = "e_acute" -> 233

HexDigit(d) ==
    CASE d < 10 -> Digit(d)
      [] d = 10 -> "A" [] d = 11 -> "B" [] d = 12 -> "C"
      [] d = 13 -> "D" [] d = 14 -> "E" [] d = 15 -> "F"

\* "%XX" for every byte, as a sequence of characters
RECURSIVE PercentBytes(_)
PercentBytes(bs) ==
    IF bs = <<>> THEN <<>>
    ELSE <<"%", HexDigit(Head(bs) \div 16), HexDigit(Head(bs) % 16)>>
         \o PercentBytes(Tail(bs))

\* characters quote never escapes: letters, digits and "_.-~"
AlwaysSafe == {"a", "b", "x", "1", "_", ".", "-", "~"}

\* the `safe` argument of RedirectResponse.__init__
LocationSafe ==
    {":", "/", "%", "#", "?", "&", "=", "@", "[", "]", "!", "$", "'",
     "(", ")", "*", "+", ",", ";"}

RECURSIVE quote(_, _)
quote(string, safe) ==
    IF string = <<>> THEN <<>>
    ELSE (IF Head(string) \in AlwaysSafe \cup safe
          THEN <<Head(string)>>
          ELSE PercentBytes(Encode(<<Ord(Head(string))>>, "utf-8")))
         \o quote(Tail(string), safe)

\* str.replace(" ", "+")
RECURSIVE ReplaceSpace(_)
ReplaceSpace(string) ==
    IF string = <<>> THEN <<>>
    ELSE <<IF Head(string) = " " THEN "+" ELSE Head(string)>> \o ReplaceSpace(Tail(string))

quote_plus(string, safe) ==
    IF \A i \in 1..Len(string) : string[i] # " "
    THEN quote(string, safe)
    ELSE ReplaceSpace(quote(string, safe \cup {" "}))

\* the characters of a text joined into one string
RECURSIVE Join(_)
Join(string) == IF string = <<>> THEN "" ELSE Head(string) \o Join(Tail(string))

(***************************************************************************)
(* RedirectResponse.__init__                                               *)
(***************************************************************************)
RedirectInit ==
    /\ pc = "new"
    /\ \E url \in Urls, given \in BOOLEAN, st \in StatusCodes, h \in CallerHeaders :
         /\ status_code' = IF given THEN st ELSE 307
         /\ headers' = HeadersSetItem(MutableHeaders(h), "location",
                                      Join(quote_plus(url, LocationSafe)))
         /\ args' = [NoArgs EXCEPT !.headers = h, !.url = url, !.status_given = given]
    /\ content' = [kind |-> "bytes", val |-> <<>>]
    /\ variant' = "RedirectResponse"
    /\ pc' = "constructed"
    /\ UNCHANGED <<media_type, charset, background, template, body_iterator, path,
                   stat_result, send_header_only, chunk_size, scope,
                   body, built, sent, err, bg_calls, fileVars, auxVars>>

(***************************************************************************)
(* TemplateResponse                                                        *)
(***************************************************************************)
Charsets == {"utf-8", "latin-1"}

\* what app.render_template returns for the template, or that it raises
AppResults ==
    {[ok |-> FALSE, text |-> <<>>]} \cup {[ok |-> TRUE, text |-> t] : t \in Texts}

TemplateInit ==
    /\ pc = "new"
    /\ \E st \in StatusCodes, h \in CallerHeaders, mt \in MediaTypeArgs,
          cs \in Charsets, bg \in Backgrounds, app \in AppResults, ext \in BOOLEAN :
         /\ template' = [name |-> "index.html", context |-> "context"]
         /\ status_code' = st
         /\ headers' = MutableHeaders(h)
         /\ media_type' = IF mt = "none" THEN "text/html" ELSE mt
         /\ charset' = cs
         /\ background' = bg
         /\ scope' = [method |-> "GET",
                      extensions |-> IF ext THEN {"http.response.template"} ELSE {},
                      app |-> app]
         /\ args' = [NoArgs EXCEPT !.headers = h, !.status_given = TRUE]
    /\ variant' = "TemplateResponse"
    /\ pc' = "constructed"
    /\ UNCHANGED <<content, body_iterator, path, stat_result, send_header_only,
                   chunk_size, body, built, sent, err, bg_calls, fileVars, auxVars>>

\* render_template: the exception it raises ("none" if it returns)
RenderTemplateError(sc, cs) ==
    IF ~sc.app.ok THEN "TemplateError"
    ELSE IF ~Encodable(sc.app.text, cs) THEN "UnicodeEncodeError"
    ELSE "none"

render_template(sc, cs) == Encode(sc.app.text, cs)

\* an emission that sends the template event without looking at the
\* extensions of the scope
TemplateCall_always_event ==
    /\ pc = "constructed"
    /\ variant = "TemplateResponse"
    /\ LET e == RenderTemplateError(scope, charset)
           b == render_template(scope, charset)
       IN  IF e # "none"
           THEN /\ pc' = "failed"
                /\ err' = e
                /\ UNCHANGED <<body, built>>
           ELSE /\ body' = b
                /\ built' = build_headers(headers, media_type, charset, TRUE, b)
                /\ pc' = "send_template"
                /\ err' = err
    /\ UNCHANGED <<objVars, sent, bg_calls, fileVars, auxVars>>

TemplateCall ==
    /\ pc = "constructed"
    /\ variant = "TemplateResponse"
    /\ LET e == RenderTemplateError(scope, charset)
           b == render_template(scope, charset)
       IN  IF e # "none"
           THEN /\ pc' = "failed"
                /\ err' = e
                /\ UNCHANGED <<body, built>>
           ELSE /\ body' = b
                /\ built' = build_headers(headers, media_type, charset, TRUE, b)
                /\ pc' = IF "http.response.template" \in scope.extensions
                         THEN "send_template" ELSE "send_start"
                /\ err' = err
    /\ UNCHANGED <<objVars, sent, bg_calls, fileVars, auxVars>>

TemplateSendTemplate ==
    /\ pc = "send_template"
    /\ variant = "TemplateResponse"
    /\ Send(TemplateEvent(template.name, template.context), "send_start")
    /\ UNCHANGED <<objVars, body, built, bg_calls, fileVars, auxVars>>

TemplateSendStart ==
    /\ pc = "send_start"
    /\ variant = "TemplateResponse"
    /\ Send(StartEvent(status_code, built), "send_body")
    /\ UNCHANGED <<objVars, body, built, bg_calls, fileVars, auxVars>>

TemplateSendBody ==
    /\ pc = "send_body"
    /\ variant = "TemplateResponse"
    /\ Send(BodyEvent(body), AfterBody)
    /\ UNCHANGED <<objVars, body, built, bg_calls, fileVars, auxVars>>

TemplateBackground ==
    /\ variant = "TemplateResponse"
    /\ RunBackground
    /\ UNCHANGED <<objVars, body, built, sent, fileVars, auxVars>>

(***************************************************************************)
(* StreamingResponse                                                       *)
(***************************************************************************)
\* chunks a producer yields: bytes or text
StreamChunks ==
    {[kind |-> "bytes", val |-> <<>>], [kind |-> "bytes", val |-> <<0>>],
     [kind |-> "bytes", val |-> <<255>>], [kind |-> "text", val |-> <<233>>]}

\* an asynchronous generator, or a synchronous iterator; it yields `chunks`
\* and then stops, or raises instead of stopping
Producers ==
    {[async |-> a, chunks |-> c, raises |-> r] :
        a \in BOOLEAN, c \in SeqsUpTo(StreamChunks, MaxChunks), r \in BOOLEAN}

\* iterate_in_threadpool(iterator): an asynchronous iterator that fetches
\* one item of the synchronous iterator per request
iterate_in_threadpool(producer) == [producer EXCEPT !.async = TRUE]

StreamingInit ==
    /\ pc = "new"
    /\ \E c \in Producers, st \in StatusCodes, h \in CallerHeaders,
          mt \in MediaTypeArgs, bg \in Backgrounds :
         /\ content' = [kind |-> "producer", val |-> c.chunks, async |-> c.async]
         /\ body_iterator' = IF c.async THEN c ELSE iterate_in_threadpool(c)
         /\ status_code' = st
         /\ headers' = MutableHeaders(h)
         /\ media_type' = IF mt = "none" THEN ClassMediaType("StreamingResponse") ELSE mt
         /\ background' = bg
         /\ args' = [NoArgs EXCEPT !.headers = h, !.status_given = TRUE]
    /\ variant' = "StreamingResponse"
    /\ pc' = "constructed"
    /\ UNCHANGED <<charset, template, path, stat_result, send_header_only, chunk_size,
                   scope, body, built, sent, err, bg_calls, fileVars, auxVars>>

StreamingSendStart ==
    /\ pc = "constructed"
    /\ variant = "StreamingResponse"
    /\ Send(StartEvent(status_code,
                       build_headers(headers, media_type, charset, FALSE, <<>>)),
            "iterate")
    /\ UNCHANGED <<objVars, body, built, bg_calls, fileVars, auxVars>>

\* an iteration that takes an exception of the producer for its end
StreamingNext_swallow ==
    /\ pc = "iterate"
    /\ variant = "StreamingResponse"
    /\ IF body_iterator.chunks # <<>>
       THEN LET c == Head(body_iterator.chunks)
            IN  /\ chunk' = IF c.kind # "bytes" THEN Encode(c.val, charset) ELSE c.val
                /\ body_iterator' = [body_iterator EXCEPT !.chunks = Tail(@)]
                /\ pc' = "send_chunk"
                /\ err' = err
       ELSE /\ pc' = "send_last"
            /\ err' = err
            /\ UNCHANGED <<chunk, body_iterator>>
    /\ UNCHANGED <<baseVars, headers, template, path, stat_result, send_header_only,
                   chunk_size, args, scope, body, built, sent, bg_calls, more_body, file, auxVars>>

\* `async for chunk in self.body_iterator`, with the encoding of a chunk
\* that is not bytes
StreamingNext ==
    /\ pc = "iterate"
    /\ variant = "StreamingResponse"
    /\ IF body_iterator.chunks # <<>>
       THEN LET c == Head(body_iterator.chunks)
            IN  /\ chunk' = IF c.kind # "bytes" THEN Encode(c.val, charset) ELSE c.val
                /\ body_iterator' = [body_iterator EXCEPT !.chunks = Tail(@)]
                /\ pc' = "send_chunk"
                /\ err' = err
       ELSE /\ IF body_iterator.raises
               THEN pc' = "failed" /\ err' = "ProducerError"
               ELSE pc' = "send_last" /\ err' = err
            /\ UNCHANGED <<chunk, body_iterator>>
    /\ UNCHANGED <<baseVars, headers, template, path, stat_result, send_header_only,
                   chunk_size, args, scope, body, built, sent, bg_calls, more_body, file, auxVars>>

StreamingSendChunk ==
    /\ pc = "send_chunk"
    /\ variant = "StreamingResponse"
    /\ Send(BodyEventMore(chunk, TRUE), "iterate")
    /\ UNCHANGED <<objVars, body, built, bg_calls, fileVars, auxVars>>

\* a terminating event that still announces more body
StreamingSendLast_more ==
    /\ pc = "send_last"
    /\ variant = "StreamingResponse"
    /\ Send(BodyEventMore(<<>>, TRUE), AfterBody)
    /\ UNCHANGED <<objVars, body, built, bg_calls, fileVars, auxVars>>

StreamingSendLast ==
    /\ pc = "send_last"
    /\ variant = "StreamingResponse"
    /\ Send(BodyEventMore(<<>>, FALSE), AfterBody)
    /\ UNCHANGED <<objVars, body, built, bg_calls, fileVars, auxVars>>

StreamingBackground ==
    /\ variant = "StreamingResponse"
    /\ RunBackground
    /\ UNCHANGED <<objVars, body, built, sent, fileVars, auxVars>>

(***************************************************************************)
(* FileResponse                                                            *)
(***************************************************************************)
\* what a path can name: nothing, a directory, or a regular file whose
\* k-th byte is k
Paths ==
    {NoPath, [kind |-> "directory", data |-> <<>>, mtime |-> 7]}
    \cup {[kind |-> "regular", data |-> [k \in 1..n |-> k], mtime |-> 7] : n \in 0..MaxFileLen}

\* os.stat(path) of a path that exists
Stat(p) == [present |-> TRUE, size |-> Len(p.data), mode |-> p.kind, mtime |-> p.mtime]

MethodArgs == {"none", "GET", "HEAD", "head"}

\* str.upper() on the method names that occur
Upper(m) == IF m = "head" THEN "HEAD" ELSE m

FilenameArgs == {"none", "f.png"}

\* mimetypes.guess_type(name)[0], "none" for None
guess_type(name) == IF name = "f.png" THEN "image/png" ELSE "none"

\* chunk_size is a class attribute (4096) that a subclass or an instance
\* overrides; the emission is modelled for the sizes 1..MaxChunkSize
ChunkSizes == 1..MaxChunkSize

set_stat_headers(h, st) ==
    LET content_length == Str(st.size)
        last_modified == "date:" \o Str(st.mtime)
        etag == "md5:" \o Str(st.mtime) \o "-" \o Str(st.size)
    IN  HeadersSetDefault(
          HeadersSetDefault(
            HeadersSetDefault(h, "content-length", content_length),
            "last-modified", last_modified),
          "etag", etag)

FileInit ==
    /\ pc = "new"
    /\ \E p \in Paths, st \in StatusCodes, h \in CallerHeaders, mt \in {"none", "text/css"},
          bg \in Backgrounds, filename \in FilenameArgs, pre \in BOOLEAN,
          method \in MethodArgs, cs \in ChunkSizes, scope_method \in {"GET", "HEAD"} :
         \* a precomputed stat is the stat of the path
         /\ pre => p.kind # "missing"
         /\ path' = p
         /\ status_code' = st
         /\ send_header_only' = (method # "none" /\ Upper(method) = "HEAD")
         /\ media_type' =
              IF mt # "none" THEN mt
              ELSE LET g == guess_type(IF filename # "none" THEN filename ELSE "path")
                   IN  IF g # "none" THEN g ELSE "text/plain"
         /\ background' = bg
         /\ stat_result' = IF pre THEN Stat(p) ELSE NoStat
         /\ LET h1 == IF filename # "none"
                      THEN HeadersSetDefault(MutableHeaders(h), "content-disposition",
                             "attachment; filename=\"" \o filename \o "\"")
                      ELSE MutableHeaders(h)
            IN  headers' = IF pre THEN set_stat_headers(h1, Stat(p)) ELSE h1
         /\ chunk_size' = cs
         /\ scope' = [NoScope EXCEPT !.method = scope_method]
         /\ args' = [NoArgs EXCEPT !.headers = h, !.status_given = TRUE, !.method = method]
    /\ variant' = "FileResponse"
    /\ pc' = "constructed"
    /\ UNCHANGED <<content, charset, template, body_iterator,
                   body, built, sent, err, bg_calls, fileVars, auxVars>>

\* a stat at send time that ignores a missing file
FileStat_ignore_missing ==
    /\ pc = "constructed"
    /\ variant = "FileResponse"
    /\ ~stat_result.present
    /\ IF path.kind = "missing"
       THEN /\ pc' = "send_start"
            /\ err' = err
            /\ UNCHANGED headers
       ELSE /\ headers' = set_stat_headers(headers, Stat(path))
            /\ IF Stat(path).mode # "regular"
               THEN pc' = "failed" /\ err' = "RuntimeError: is not a file"
               ELSE pc' = "send_start" /\ err' = err
    /\ UNCHANGED <<baseVars, extVars, body, built, sent, bg_calls, fileVars, auxVars>>

\* a stat at send time without the S_ISREG test
FileStat_no_isreg ==
    /\ pc = "constructed"
    /\ variant = "FileResponse"
    /\ ~stat_result.present
    /\ IF path.kind = "missing"
       THEN /\ pc' = "failed"
            /\ err' = "RuntimeError: does not exist"
            /\ UNCHANGED headers
       ELSE /\ headers' = set_stat_headers(headers, Stat(path))
            /\ pc' = "send_start"
            /\ err' = err
    /\ UNCHANGED <<baseVars, extVars, body, built, sent, bg_calls, fileVars, auxVars>>

\* `if self.stat_result is None:` ... the stat at send time
FileStat ==
    /\ pc = "constructed"
    /\ variant = "FileResponse"
    /\ ~stat_result.present
    /\ IF path.kind = "missing"
       THEN /\ pc' = "failed"
            /\ err' = "RuntimeError: does not exist"
            /\ UNCHANGED headers
       ELSE /\ headers' = set_stat_headers(headers, Stat(path))
            /\ IF Stat(path).mode # "regular"
               THEN pc' = "failed" /\ err' = "RuntimeError: is not a file"
               ELSE pc' = "send_start" /\ err' = err
    /\ UNCHANGED <<baseVars, extVars, body, built, sent, bg_calls, fileVars, auxVars>>

FileSendStart ==
    /\ variant = "FileResponse"
    /\ \/ pc = "send_start"
       \/ pc = "constructed" /\ stat_result.present
    /\ Send(StartEvent(status_code,
                       build_headers(headers, media_type, charset, FALSE, <<>>)),
            IF send_header_only THEN "send_header_only" ELSE "open")
    /\ UNCHANGED <<objVars, body, built, bg_calls, fileVars, auxVars>>

FileSendHeaderOnly ==
    /\ pc = "send_header_only"
    /\ variant = "FileResponse"
    /\ Send(BodyEventBare, AfterBody)
    /\ UNCHANGED <<objVars, body, built, bg_calls, fileVars, auxVars>>

\* `async with aiofiles.open(self.path, mode="rb") as file:`
FileOpen ==
    /\ pc = "open"
    /\ variant = "FileResponse"
    /\ \/ /\ path.kind = "regular"
          /\ file' = [file EXCEPT !.open = TRUE, !.pos = 0, !.opens = @ + 1]
          /\ more_body' = TRUE
          /\ pc' = "read"
          /\ err' = err
       \/ /\ pc' = "failed"
          /\ err' = CASE path.kind = "missing" -> "FileNotFoundError"
                      [] path.kind = "directory" -> "IsADirectoryError"
                      [] OTHER -> "PermissionError"
          /\ UNCHANGED <<file, more_body>>
    /\ UNCHANGED <<objVars, body, built, sent, bg_calls, chunk, auxVars>>

Min(a, b) == IF a < b THEN a ELSE b

\* a read loop that goes on while the chunk is not empty
FileRead_until_empty ==
    /\ pc = "read"
    /\ variant = "FileResponse"
    /\ \/ LET c == SubSeq(path.data, file.pos + 1,
                          IF file.pos + chunk_size < Len(path.data)
                          THEN file.pos + chunk_size ELSE Len(path.data))
          IN  /\ chunk' = c
              /\ more_body' = (Len(c) > 0)
              /\ file' = [file EXCEPT !.pos = @ + Len(c), !.reads = @ + 1]
              /\ pc' = "send_chunk"
              /\ err' = err
       \/ /\ pc' = "failed"
          /\ err' = "OSError"
          /\ file' = [file EXCEPT !.open = FALSE, !.reads = @ + 1]
          /\ UNCHANGED <<chunk, more_body>>
    /\ UNCHANGED <<objVars, body, built, sent, bg_calls, auxVars>>

\* `chunk = await file.read(self.chunk_size)` and
\* `more_body = len(chunk) == self.chunk_size`
FileRead ==
    /\ pc = "read"
    /\ variant = "FileResponse"
    /\ \/ LET c == SubSeq(path.data, file.pos + 1,
                          Min(file.pos + chunk_size, Len(path.data)))
          IN  /\ chunk' = c
              /\ more_body' = (Len(c) = chunk_size)
              /\ file' = [file EXCEPT !.pos = @ + Len(c), !.reads = @ + 1]
              /\ pc' = "send_chunk"
              /\ err' = err
       \/ /\ pc' = "failed"
          /\ err' = "OSError"
          /\ file' = [file EXCEPT !.open = FALSE, !.reads = @ + 1]
          /\ UNCHANGED <<chunk, more_body>>
    /\ UNCHANGED <<objVars, body, built, sent, bg_calls, auxVars>>

\* a chunk sender that announces more body after every chunk
FileSendChunk_always_more ==
    /\ pc = "send_chunk"
    /\ variant = "FileResponse"
    /\ Send(BodyEventMore(chunk, TRUE), IF more_body THEN "read" ELSE AfterBody)
    /\ file' = IF pc' = "read" THEN file ELSE [file EXCEPT !.open = FALSE]
    /\ UNCHANGED <<objVars, body, built, bg_calls, chunk, more_body, auxVars>>

FileSendChunk ==
    /\ pc = "send_chunk"
    /\ variant = "FileResponse"
    /\ Send(BodyEventMore(chunk, more_body), IF more_body THEN "read" ELSE AfterBody)
    /\ file' = IF pc' = "read" THEN file ELSE [file EXCEPT !.open = FALSE]
    /\ UNCHANGED <<objVars, body, built, bg_calls, chunk, more_body, auxVars>>

FileBackground ==
    /\ variant = "FileResponse"
    /\ RunBackground
    /\ UNCHANGED <<objVars, body, built, sent, fileVars, auxVars>>

(***************************************************************************)
(* Cookies: Response.set_cookie and Response.delete_cookie.  An optional   *)
(* integer is <<>> for None and <<n>> for n; an optional string is "none"  *)
(* for None.                                                               *)
(***************************************************************************)
MaxCookies == 2

\* time.time() at the call, in seconds since the epoch
CookieTimes == {0, 90061}

\* "%02d"
TwoDigits(n) == IF n < 10 THEN "0" \o Digit(n) ELSE Str(n)

WeekdayName(d) ==
    CASE d = 0 -> "Mon" [] d = 1 -> "Tue" [] d = 2 -> "Wed" [] d = 3 -> "Thu"
      [] d = 4 -> "Fri" [] d = 5 -> "Sat" [] d = 6 -> "Sun"

\* http.cookies._getdate: the instant t as "Wdy, DD Mon YYYY HH:MM:SS GMT",
\* for the instants of January 1970
GetDate(t) ==
    WeekdayName((3 + t \div 86400) % 7) \o ", " \o TwoDigits(1 + t \div 86400)
    \o " Jan 1970 " \o TwoDigits((t % 86400) \div 3600) \o ":"
    \o TwoDigits((t % 3600) \div 60) \o ":" \o TwoDigits(t % 60) \o " GMT"

\* http.cookies._quote on the values that occur: a legal, non-empty value
\* is left as it is, any other is put in double quotes
CookieQuote(value) == IF value = "" THEN "\"\"" ELSE value

\* Morsel.OutputString: key=value, then the attributes that are set, sorted
\* by their key (domain, expires, httponly, max-age, path, secure);
\* expires_text is "" when no expiry is set
CookieOutput(key, value, max_age, expires_text, cpath, domain, secure, httponly) ==
    key \o "=" \o CookieQuote(value)
    \o (IF domain # "none" THEN "; Domain=" \o domain ELSE "")
    \o (IF expires_text # "" THEN "; expires=" \o expires_text ELSE "")
    \o (IF httponly THEN "; HttpOnly" ELSE "")
    \o (IF max_age # <<>> THEN "; Max-Age=" \o Str(max_age[1]) ELSE "")
    \o (IF cpath # "none" THEN "; Path=" \o cpath ELSE "")
    \o (IF secure THEN "; Secure" ELSE "")

\* the header list after set_cookie(...) called at the instant `now`: an
\* integer `expires` is a number of seconds from now
set_cookie(h, key, value, max_age, expires, cpath, domain, secure, httponly, now) ==
    LET expires_text == IF expires # <<>> THEN GetDate(now + expires[1]) ELSE ""
        cookie_val == CookieOutput(key, value, max_age, expires_text, cpath, domain,
                                   secure, httponly)
    IN  HeadersAppend(h, "set-cookie", cookie_val)

delete_cookie(h, key, cpath, domain, now) ==
    set_cookie(h, key, "", <<0>>, <<0>>, cpath, domain, FALSE, FALSE, now)

CookieKeys == {"a", "b"}
CookieValues == {"", "v"}

\* the optional arguments of the set_cookie calls that are made
CookieOptions ==
    { [max_age |-> <<>>, expires |-> <<>>, path |-> "/", domain |-> "none",
       secure |-> FALSE, httponly |-> FALSE],
      [max_age |-> <<60>>, expires |-> <<>>, path |-> "none", domain |-> "d",
       secure |-> TRUE, httponly |-> TRUE],
      [max_age |-> <<>>, expires |-> <<3600>>, path |-> "/", domain |-> "none",
       secure |-> FALSE, httponly |-> FALSE] }

\* a set_cookie whose header assignment replaces the entry that is there
SetCookie_replace ==
    /\ pc = "constructed"
    /\ Len(cookie_calls) < MaxCookies
    /\ \E key \in CookieKeys, value \in CookieValues, o \in CookieOptions,
          now \in CookieTimes :
         LET h == set_cookie(<<>>, key, value, o.max_age, o.expires, o.path,
                             o.domain, o.secure, o.httponly, now)
         IN  /\ headers' = HeadersSetItem(headers, "set-cookie", h[1][2])
             /\ cookie_calls' = Append(cookie_calls,
                    [op |-> "set", key |-> key, path |-> o.path, domain |-> o.domain,
                     now |-> now, before |-> headers])
    /\ UNCHANGED <<baseVars, extVars, callVars, ujson, other>>

SetCookie ==
    /\ pc = "constructed"
    /\ Len(cookie_calls) < MaxCookies
    /\ \E key \in CookieKeys, value \in CookieValues, o \in CookieOptions,
          now \in CookieTimes :
         /\ headers' = set_cookie(headers, key, value, o.max_age, o.expires, o.path,
                                  o.domain, o.secure, o.httponly, now)
         /\ cookie_calls' = Append(cookie_calls,
                [op |-> "set", key |-> key, path |-> o.path, domain |-> o.domain,
                 now |-> now, before |-> headers])
    /\ UNCHANGED <<baseVars, extVars, callVars, ujson, other>>

DeleteCookie ==
    /\ pc = "constructed"
    /\ Len(cookie_calls) < MaxCookies
    /\ \E key \in CookieKeys, p \in {"/", "/x"}, domain \in {"none", "d"},
          now \in CookieTimes :
         /\ headers' = delete_cookie(headers, key, p, domain, now)
         /\ cookie_calls' = Append(cookie_calls,
                [op |-> "delete", key |-> key, path |-> p, domain |-> domain,
                 now |-> now, before |-> headers])
    /\ UNCHANGED <<baseVars, extVars, callVars, ujson, other>>

\* the responses the cookie calls are made on: a Response or HTMLResponse
\* with little content, with or without a Set-Cookie header of the caller
CookieCallerHeaders ==
    { <<>>, << <<"x-custom", "v">>, <<"Set-Cookie", "old=1">> >> }

CookieResponseInit ==
    /\ pc = "new"
    /\ \E cls \in {"Response", "HTMLResponse"}, h \in CookieCallerHeaders,
          c \in {NoContent, [kind |-> "bytes", val |-> <<0>>]},
          bg \in {"none", "ok"} :
         /\ variant' = cls
         /\ content' = c
         /\ status_code' = 200
         /\ headers' = MutableHeaders(h)
         /\ media_type' = ClassMediaType(cls)
         /\ background' = bg
         /\ args' = [NoArgs EXCEPT !.headers = h, !.status_given = FALSE]
    /\ pc' = "constructed"
    /\ UNCHANGED <<charset, template, body_iterator, path, stat_result, send_header_only,
                   chunk_size, scope, body, built, sent, err, bg_calls, fileVars, auxVars>>

Next ==
    \/ ResponseInit
    \/ ResponseCall
    \/ ResponseSendStart
    \/ ResponseSendBody
    \/ ResponseBackground
    \/ RedirectInit
    \/ TemplateInit
    \/ TemplateCall
    \/ TemplateSendTemplate
    \/ TemplateSendStart
    \/ TemplateSendBody
    \/ TemplateBackground
    \/ StreamingInit
    \/ StreamingSendStart
    \/ StreamingNext
    \/ StreamingSendChunk
    \/ StreamingSendLast
    \/ StreamingBackground
    \/ FileInit
    \/ FileStat
    \/ FileSendStart
    \/ FileSendHeaderOnly
    \/ FileOpen
    \/ FileRead
    \/ FileSendChunk
    \/ FileBackground

Spec == Init /\ [][Next]_vars

\* the cookie calls, on a response that is then emitted
NextCookies ==
    \/ CookieResponseInit
    \/ SetCookie
    \/ DeleteCookie
    \/ ResponseCall
    \/ ResponseSendStart
    \/ ResponseSendBody
    \/ ResponseBackground

SpecCookies == Init /\ [][NextCookies]_vars

(***************************************************************************)
(* A file response next to another process that writes the file system:   *)
(* between any two steps of the response the file at `path` may be         *)
(* modified, truncated, replaced or removed.  os.stat, aiofiles.open and   *)
(* file.read see the file as it is when they run.                          *)
(***************************************************************************)
FsModify ==
    /\ variant = "FileResponse"
    /\ pc \notin {"new", "done", "failed"}
    \* one change of the file per emission
    /\ path \in Paths
    /\ \E p \in Paths :
         /\ p # path
         /\ path' = [p EXCEPT !.mtime = IF p.kind = "missing" THEN 0 ELSE 8]
    /\ UNCHANGED <<baseVars, headers, template, body_iterator, stat_result,
                   send_header_only, chunk_size, args, scope, callVars, auxVars>>

NextFs ==
    \/ FileInit
    \/ FsModify
    \/ FileStat
    \/ FileSendStart
    \/ FileSendHeaderOnly
    \/ FileOpen
    \/ FileRead
    \/ FileSendChunk
    \/ FileBackground

SpecFs == Init /\ [][NextFs]_vars

(***************************************************************************)
(* Two response instances emitted concurrently on one event loop.  The     *)
(* state of an instance is its attributes (on self) and the locals of its   *)
(* __call__ (chunk, more_body, the file handle, the position in the code); *)
(* the imported ujson module is the only state of the module.  The         *)
(* variables hold the instance that is running and `other` holds the one   *)
(* that is suspended; the loop may switch at every await.                  *)
(***************************************************************************)
Snapshot ==
    [variant |-> variant,
     content |-> content,
     status_code |-> status_code,
     media_type |-> media_type,
     charset |-> charset,
     background |-> background,
     headers |-> headers,
     template |-> template,
     body_iterator |-> body_iterator,
     path |-> path,
     stat_result |-> stat_result,
     send_header_only |-> send_header_only,
     chunk_size |-> chunk_size,
     args |-> args,
     scope |-> scope,
     pc |-> pc,
     body |-> body,
     built |-> built,
     sent |-> sent,
     err |-> err,
     bg_calls |-> bg_calls,
     chunk |-> chunk,
     more_body |-> more_body,
     file |-> file]

\* a second instance, not constructed yet, next to the first
Spawn ==
    /\ pc = "new"
    /\ other = <<>>
    /\ other' = Snapshot
    /\ UNCHANGED <<objVars, callVars, ujson, cookie_calls>>

\* a switch that leaves the chunk read last where the other emission finds it
Switch_shared_chunk ==
    /\ other # <<>>
    /\ variant' = other.variant
    /\ content' = other.content
    /\ status_code' = other.status_code
    /\ media_type' = other.media_type
    /\ charset' = other.charset
    /\ background' = other.background
    /\ headers' = other.headers
    /\ template' = other.template
    /\ body_iterator' = other.body_iterator
    /\ path' = other.path
    /\ stat_result' = other.stat_result
    /\ send_header_only' = other.send_header_only
    /\ chunk_size' = other.chunk_size
    /\ args' = other.args
    /\ scope' = other.scope
    /\ pc' = other.pc
    /\ body' = other.body
    /\ built' = other.built
    /\ sent' = other.sent
    /\ err' = other.err
    /\ bg_calls' = other.bg_calls
    /\ more_body' = other.more_body
    /\ file' = other.file
    /\ other' = Snapshot
    /\ UNCHANGED <<chunk, ujson, cookie_calls>>

\* the event loop suspends the running emission and resumes the other one
Switch ==
    /\ other # <<>>
    /\ variant' = other.variant
    /\ content' = other.content
    /\ status_code' = other.status_code
    /\ media_type' = other.media_type
    /\ charset' = other.charset
    /\ background' = other.background
    /\ headers' = other.headers
    /\ template' = other.template
    /\ body_iterator' = other.body_iterator
    /\ path' = other.path
    /\ stat_result' = other.stat_result
    /\ send_header_only' = other.send_header_only
    /\ chunk_size' = other.chunk_size
    /\ args' = other.args
    /\ scope' = other.scope
    /\ pc' = other.pc
    /\ body' = other.body
    /\ built' = other.built
    /\ sent' = other.sent
    /\ err' = other.err
    /\ bg_calls' = other.bg_calls
    /\ chunk' = other.chunk
    /\ more_body' = other.more_body
    /\ file' = other.file
    /\ other' = Snapshot
    /\ UNCHANGED <<ujson, cookie_calls>>

PairChunks == {[kind |-> "bytes", val |-> <<0>>], [kind |-> "text", val |-> <<233>>]}

\* the constructors, on the arguments of the pairs that are explored
PairResponseInit ==
    /\ pc = "new"
    /\ other # <<>>
    /\ \E c \in {[kind |-> "bytes", val |-> <<0>>], [kind |-> "text", val |-> <<233>>]} :
         content' = c
    /\ variant' = "Response"
    /\ status_code' = 200
    /\ headers' = MutableHeaders(<<>>)
    /\ media_type' = ClassMediaType("Response")
    /\ background' = "ok"
    /\ args' = [NoArgs EXCEPT !.status_given = TRUE]
    /\ pc' = "constructed"
    /\ UNCHANGED <<charset, template, body_iterator, path, stat_result, send_header_only,
                   chunk_size, scope, body, built, sent, err, bg_calls, fileVars, auxVars>>

PairStreamingInit ==
    /\ pc = "new"
    /\ other # <<>>
    /\ \E c \in SeqsUpTo(PairChunks, MaxChunks) :
         /\ content' = [kind |-> "producer", val |-> c, async |-> TRUE]
         /\ \E r \in BOOLEAN :
              body_iterator' = [async |-> TRUE, chunks |-> c, raises |-> r]
    /\ variant' = "StreamingResponse"
    /\ status_code' = 200
    /\ headers' = MutableHeaders(<<>>)
    /\ media_type' = ClassMediaType("StreamingResponse")
    /\ background' = "ok"
    /\ args' = [NoArgs EXCEPT !.status_given = TRUE]
    /\ pc' = "constructed"
    /\ UNCHANGED <<charset, template, path, stat_result, send_header_only, chunk_size,
                   scope, body, built, sent, err, bg_calls, fileVars, auxVars>>

PairFileInit ==
    /\ pc = "new"
    /\ other # <<>>
    /\ \E p \in {q \in Paths : q.kind = "regular"}, pre \in BOOLEAN, cs \in ChunkSizes :
         /\ path' = p
         /\ stat_result' = IF pre THEN Stat(p) ELSE NoStat
         /\ headers' = IF pre THEN set_stat_headers(MutableHeaders(<<>>), Stat(p))
                              ELSE MutableHeaders(<<>>)
         /\ chunk_size' = cs
    /\ variant' = "FileResponse"
    /\ status_code' = 200
    /\ send_header_only' = FALSE
    /\ media_type' = "text/css"
    /\ background' = "ok"
    /\ scope' = NoScope
    /\ args' = [NoArgs EXCEPT !.status_given = TRUE]
    /\ pc' = "constructed"
    /\ UNCHANGED <<content, charset, template, body_iterator,
                   body, built, sent, err, bg_calls, fileVars, auxVars>>

NextPair ==
    \/ Spawn
    \/ Switch
    \/ PairResponseInit
    \/ PairStreamingInit
    \/ PairFileInit
    \/ ResponseCall
    \/ ResponseSendStart
    \/ ResponseSendBody
    \/ ResponseBackground
    \/ StreamingSendStart
    \/ StreamingNext
    \/ StreamingSendChunk
    \/ StreamingSendLast
    \/ StreamingBackground
    \/ FileStat
    \/ FileSendStart
    \/ FileOpen
    \/ FileRead
    \/ FileSendChunk
    \/ FileBackground

SpecPair == Init /\ [][NextPair]_vars

(***************************************************************************)
(* Vocabulary of the properties.                                           *)
(***************************************************************************)
IsPrefix(a, b) == Len(a) <= Len(b) /\ \A i \in 1..Len(a) : a[i] = b[i]

IsStart(e) == e.type = "http.response.start"
IsBody(e) == e.type = "http.response.body"

\* a body event after which no further body event is due
IsFinalBody(e) == IsBody(e) /\ ("more_body" \notin e.keys \/ ~e.more_body)

BodyEvents == SelectSeq(sent, IsBody)

\* every body event of the emission has been accepted by `send`
BodySent == pc \in {"background", "done"} \/ err = "BackgroundError"

PlainClasses == {"Response", "HTMLResponse", "PlainTextResponse"}

(***************************************************************************)
(* C1: a base Response whose content is None, bytes or text sends, in      *)
(* this order, one http.response.start with the status and the built       *)
(* headers and one http.response.body with the whole rendered body (None   *)
(* -> empty, bytes -> unchanged, text -> encoded) that announces no        *)
(* further body; nothing else is ever sent.                                *)
(***************************************************************************)
C1_Body ==
    CASE content.kind = "bytes" -> content.val
      [] content.kind = "text" -> Encode(content.val, "utf-8")
      [] OTHER -> <<>>

C1_Events ==
    << [type |-> "http.response.start", keys |-> {"type", "status", "headers"},
        status |-> status_code,
        headers |-> build_headers(headers, media_type, "utf-8", TRUE, C1_Body),
        body |-> <<>>, more_body |-> FALSE, template |-> "", context |-> ""],
       [type |-> "http.response.body", keys |-> {"type", "body"},
        status |-> 0, headers |-> <<>>, body |-> C1_Body, more_body |-> FALSE,
        template |-> "", context |-> ""] >>

C1_StartThenBody ==
    (variant \in PlainClasses /\ content.kind \in {"none", "bytes", "text"}) =>
        /\ IsPrefix(sent, C1_Events)
        /\ BodySent => sent = C1_Events
        /\ pc = "send_body" => Len(sent) = 1
        /\ pc \in {"constructed", "send_start"} => sent = <<>>
        /\ pc = "failed" => err \in {"SendError", "BackgroundError"}

C1_Witness ==
    /\ variant = "Response"
    /\ content.kind = "text"
    /\ Len(C1_Body) > Len(content.val)
    /\ pc = "done"
    /\ Len(sent) = 2
    /\ IsFinalBody(sent[2])

(***************************************************************************)
(* C2: a StreamingResponse over a producer of N chunks sends the start     *)
(* event and then the N chunks in production order, each encoded to bytes  *)
(* and marked more_body, then one empty body event with more_body false:   *)
(* N+1 body events when the producer finishes.  A chunk is requested from  *)
(* the producer only when every chunk requested before it has been sent.   *)
(***************************************************************************)
C2_Chunk(c) == IF c.kind = "text" THEN Encode(c.val, "utf-8") ELSE c.val

C2_Expected(i) ==
    IF i = 1
    THEN StartEvent(status_code, build_headers(headers, media_type, charset, FALSE, <<>>))
    ELSE IF i - 1 <= Len(content.val)
    THEN [type |-> "http.response.body", keys |-> {"type", "body", "more_body"},
          status |-> 0, headers |-> <<>>, body |-> C2_Chunk(content.val[i - 1]),
          more_body |-> TRUE, template |-> "", context |-> ""]
    ELSE [type |-> "http.response.body", keys |-> {"type", "body", "more_body"},
          status |-> 0, headers |-> <<>>, body |-> <<>>,
          more_body |-> FALSE, template |-> "", context |-> ""]

\* chunks the producer has been asked for and has yielded
C2_Requested == Len(content.val) - Len(body_iterator.chunks)

C2_Streaming ==
    variant = "StreamingResponse" =>
        /\ Len(sent) <= Len(content.val) + 2
        /\ \A i \in 1..Len(sent) : sent[i] = C2_Expected(i)
        /\ BodySent => Len(BodyEvents) = Len(content.val) + 1
        /\ C2_Requested <= Len(BodyEvents) + 1
        /\ pc = "iterate" => Len(BodyEvents) = C2_Requested
        /\ pc = "send_chunk" => Len(BodyEvents) = C2_Requested - 1
        /\ C2_Requested > 0 => Len(sent) >= 1

C2_Witness ==
    /\ variant = "StreamingResponse"
    /\ ~content.async
    /\ Len(content.val) = MaxChunks
    /\ \E i \in 1..Len(content.val) : content.val[i].kind = "text"
    /\ pc = "done"
    /\ Len(BodyEvents) = MaxChunks + 1
    /\ IsFinalBody(sent[Len(sent)])

(***************************************************************************)
(* C3: a FileResponse that is not header-only reads the file of S bytes    *)
(* in chunks of at most C = chunk_size bytes and sends one body event per  *)
(* read: S div C events with C bytes and more_body true, then one event    *)
(* with the S mod C remaining bytes (none when C divides S) and more_body  *)
(* false.  It reads S div C + 1 times and the bodies concatenate to the    *)
(* file.                                                                   *)
(***************************************************************************)
C3_Size == Len(path.data)

C3_ExpectedBody(i) ==
    [type |-> "http.response.body", keys |-> {"type", "body", "more_body"},
     status |-> 0, headers |-> <<>>,
     body |-> IF i <= C3_Size \div chunk_size
              THEN [k \in 1..chunk_size |-> path.data[(i - 1) * chunk_size + k]]
              ELSE [k \in 1..(C3_Size % chunk_size) |->
                        path.data[(C3_Size \div chunk_size) * chunk_size + k]],
     more_body |-> (i <= C3_Size \div chunk_size),
     template |-> "", context |-> ""]

RECURSIVE C3_Concat(_)
C3_Concat(evs) == IF evs = <<>> THEN <<>> ELSE Head(evs).body \o C3_Concat(Tail(evs))

C3_FileChunks ==
    (variant = "FileResponse" /\ ~send_header_only) =>
        /\ Len(BodyEvents) <= C3_Size \div chunk_size + 1
        /\ \A i \in 1..Len(BodyEvents) : BodyEvents[i] = C3_ExpectedBody(i)
        /\ file.reads <= Len(BodyEvents) + 1
        /\ BodySent =>
             /\ Len(BodyEvents) = C3_Size \div chunk_size + 1
             /\ file.reads = C3_Size \div chunk_size + 1
             /\ file.opens = 1
             /\ C3_Concat(BodyEvents) = path.data
             /\ IsFinalBody(sent[Len(sent)])
             /\ Len(sent[Len(sent)].body) = C3_Size % chunk_size

C3_Witness ==
    /\ variant = "FileResponse"
    /\ ~send_header_only
    /\ C3_Size = chunk_size
    /\ pc = "done"
    /\ file.reads = 2
    /\ Len(BodyEvents) = 2
    /\ BodyEvents[1].more_body /\ Len(BodyEvents[1].body) = chunk_size
    /\ BodyEvents[2].body = <<>> /\ ~BodyEvents[2].more_body

(***************************************************************************)
(* C4: in every variant an attached background task is invoked once, and   *)
(* only when the last body event has been sent: never before or between    *)
(* events, and not at all when render, the producer, the stat, the open, a *)
(* read or a send raised.  An exception of the task leaves the emission    *)
(* call.                                                                   *)
(***************************************************************************)
C4_State ==
    /\ bg_calls <= 1
    /\ background = "none" => bg_calls = 0
    /\ bg_calls = 1 =>
         /\ sent # <<>>
         /\ IsFinalBody(sent[Len(sent)])
         /\ \A i \in 1..(Len(sent) - 1) : ~IsFinalBody(sent[i])
         /\ pc \in {"done", "failed"}
    /\ pc = "background" => sent # <<>> /\ IsFinalBody(sent[Len(sent)])
    /\ (pc = "done" /\ background # "none") => bg_calls = 1
    /\ (pc = "failed" /\ err # "BackgroundError") => bg_calls = 0
    /\ (bg_calls = 1 /\ background = "raises") => (pc = "failed" /\ err = "BackgroundError")
    /\ (bg_calls = 1 /\ background = "ok") => (pc = "done" /\ err = "none")

\* the state part of C4, and: the step that invokes the task sends nothing,
\* and nothing is sent once it has been invoked
C4_BackgroundAfterBody ==
    /\ []C4_State
    /\ [][(bg_calls' # bg_calls \/ bg_calls >= 1) => sent' = sent]_vars

C4_Witness ==
    /\ variant = "FileResponse"
    /\ background = "raises"
    /\ bg_calls = 1
    /\ pc = "failed"
    /\ err = "BackgroundError"
    /\ Len(BodyEvents) >= 2

C4_WitnessNotRun ==
    /\ background = "ok"
    /\ pc = "failed"
    /\ err \in {"OSError", "ProducerError", "UnicodeEncodeError", "SendError"}
    /\ bg_calls = 0

(***************************************************************************)
(* Header lists.                                                           *)
(***************************************************************************)
\* positions of the entries called `name`, in any letter case
Entries(h, name) == {j \in 1..Len(h) : Lower(h[j][1]) = name}

\* value of the first entry called `name`
ValueOf(h, name) ==
    h[CHOOSE j \in Entries(h, name) : \A k \in Entries(h, name) : j <= k][2]

StartEvents == SelectSeq(sent, IsStart)

EagerClasses == BaseClasses \cup {"RedirectResponse", "TemplateResponse"}

(***************************************************************************)
(* C5 (as claimed, and already for responses without a caller-set          *)
(* Content-Length): when the method in the request scope is HEAD, a file   *)
(* response sends the start event with Content-Length equal to the size of *)
(* the file, then exactly one body event with no bytes, and neither opens  *)
(* nor reads the file.                                                     *)
(***************************************************************************)
C5_HeadOfScope ==
    (/\ variant = "FileResponse"
     /\ scope.method = "HEAD"
     /\ Entries(args.headers, "content-length") = {}) =>
        /\ file.opens = 0
        /\ file.reads = 0
        /\ \A i \in 1..Len(StartEvents) :
             /\ Entries(StartEvents[i].headers, "content-length") # {}
             /\ ValueOf(StartEvents[i].headers, "content-length") = Str(Len(path.data))
        /\ Len(BodyEvents) <= 1
        /\ \A i \in 1..Len(BodyEvents) : BodyEvents[i].body = <<>>
        /\ BodySent => Len(BodyEvents) = 1
        /\ pc \notin {"open", "read", "send_chunk"}

(***************************************************************************)
(* C6: a FileResponse built without a precomputed stat whose path does not *)
(* exist fails with the "does not exist" RuntimeError; no event has been   *)
(* sent and the background task has not run.                               *)
(***************************************************************************)
C6_NotFound ==
    (/\ variant = "FileResponse"
     /\ ~stat_result.present
     /\ path.kind = "missing"
     /\ pc # "constructed") =>
        /\ pc = "failed"
        /\ err = "RuntimeError: does not exist"
        /\ sent = <<>>
        /\ bg_calls = 0
        /\ file.opens = 0

C6_Witness ==
    /\ variant = "FileResponse"
    /\ ~stat_result.present
    /\ path.kind = "missing"
    /\ background = "ok"
    /\ pc = "failed"
    /\ err = "RuntimeError: does not exist"

(***************************************************************************)
(* C7 (as claimed): on either initialization path, a FileResponse whose    *)
(* path exists but is not a regular file fails with the "is not a file"    *)
(* RuntimeError before the start event is sent.                            *)
(***************************************************************************)
C7_NotAFileEitherPath ==
    (/\ variant = "FileResponse"
     /\ path.kind = "directory"
     /\ pc # "constructed") =>
        /\ pc = "failed"
        /\ err = "RuntimeError: is not a file"
        /\ sent = <<>>

(***************************************************************************)
(* C7 (amended): a FileResponse built without a precomputed stat whose     *)
(* path exists but is not a regular file fails with the "is not a file"    *)
(* RuntimeError before the start event is sent.                            *)
(***************************************************************************)
C7_NotAFileDeferred ==
    (/\ variant = "FileResponse"
     /\ ~stat_result.present
     /\ path.kind = "directory"
     /\ pc # "constructed") =>
        /\ pc = "failed"
        /\ err = "RuntimeError: is not a file"
        /\ sent = <<>>
        /\ bg_calls = 0

C7_Witness ==
    /\ variant = "FileResponse"
    /\ ~stat_result.present
    /\ path.kind = "directory"
    /\ pc = "failed"
    /\ err = "RuntimeError: is not a file"
    /\ Entries(headers, "etag") # {}

(***************************************************************************)
(* C8: when a response with an eagerly rendered body (base, HTML, plain    *)
(* text, JSON, redirect, templated) has no Content-Length among its        *)
(* headers, its start event has exactly one content-length entry, and the  *)
(* value is the decimal byte length of the body of the body event that     *)
(* follows.                                                                *)
(***************************************************************************)
C8_ContentLength ==
    (variant \in EagerClasses /\ Entries(headers, "content-length") = {}) =>
        \A i \in 1..Len(sent) :
            IsStart(sent[i]) =>
                /\ Cardinality(Entries(sent[i].headers, "content-length")) = 1
                /\ ValueOf(sent[i].headers, "content-length") = Str(Len(body))
                /\ i < Len(sent) =>
                     /\ IsBody(sent[i + 1])
                     /\ ValueOf(sent[i].headers, "content-length")
                            = Str(Len(sent[i + 1].body))

C8_Witness ==
    /\ variant = "JSONResponse"
    /\ Entries(headers, "content-length") = {}
    /\ pc = "done"
    /\ Len(sent) = 2
    /\ Len(sent[2].body) >= 10
    /\ ValueOf(sent[1].headers, "content-length") = "11"

(***************************************************************************)
(* C9: Content-Length and Content-Type in the emitted header list.         *)
(***************************************************************************)
AutoNames == {"content-length", "content-type"}

Range(f) == {f[j] : j \in DOMAIN f}

\* positions, in the emitted list e, of the entries the caller supplied
CallerIdx(e) == {j \in 1..Len(e) : e[j] \in Range(args.headers)}

\* positions of the entries the response computed for `name`
ComputedIdx(e, name) == Entries(e, name) \ CallerIdx(e)

IsCallerEntry(entry) == entry \in Range(args.headers)

\* for both names: never more than one entry, and the caller's value when
\* the caller set one; the caller's entries keep their order
C9_NoOverride(e) ==
    /\ \A name \in AutoNames :
         /\ Cardinality(Entries(e, name)) <= 1
         /\ Entries(args.headers, name) # {} =>
              /\ Cardinality(Entries(e, name)) = 1
              /\ ValueOf(e, name) = ValueOf(args.headers, name)
    /\ SelectSeq(e, IsCallerEntry) = args.headers

C9_WitnessComputed ==
    /\ variant = "FileResponse"
    /\ args.headers = << <<"x-custom", "v">> >>
    /\ Len(StartEvents) = 1
    /\ ComputedIdx(StartEvents[1].headers, "content-length") = {2}
    /\ ComputedIdx(StartEvents[1].headers, "content-type") = {1}

(***************************************************************************)
(* C10 (as claimed): the Location header of a redirect is the target with  *)
(* every character percent-encoded except the allow-list and the           *)
(* unreserved characters, so that a space is percent-encoded; the body is  *)
(* empty and the status is 307 unless one is given.                        *)
(***************************************************************************)
C10_LocationPercentEncoded ==
    variant = "RedirectResponse" =>
        /\ Cardinality(Entries(headers, "location")) = 1
        /\ ValueOf(headers, "location") = Join(quote(args.url, LocationSafe))
        /\ ~args.status_given => status_code = 307
        /\ \A i \in 1..Len(BodyEvents) : BodyEvents[i].body = <<>>

(***************************************************************************)
(* C11: set_cookie and delete_cookie only append.  After any sequence of   *)
(* calls the header list is the list of before the calls followed by one   *)
(* set-cookie entry per call, in call order (also for a key that has an    *)
(* entry already), and the start event carries every one of them as an     *)
(* entry of its own.                                                       *)
(***************************************************************************)
IsSetCookie(entry) == Lower(entry[1]) = "set-cookie"

C11_AppendOnly ==
    variant \in PlainClasses =>
        /\ Len(headers) = Len(args.headers) + Len(cookie_calls)
        /\ IsPrefix(args.headers, headers)
        /\ \A i \in 1..Len(cookie_calls) :
             LET c == cookie_calls[i]
                 new == headers[Len(c.before) + 1]
             IN  /\ Len(c.before) = Len(args.headers) + i - 1
                 /\ IsPrefix(c.before, headers)
                 /\ new[1] = "set-cookie"
                 /\ StartsWith(new[2], c.key \o "=")
        /\ \A i \in 1..Len(StartEvents) :
             LET e == StartEvents[i].headers
             IN  /\ SelectSeq(e, IsSetCookie) = SelectSeq(headers, IsSetCookie)
                 /\ Len(SelectSeq(e, IsSetCookie))
                        = Len(SelectSeq(args.headers, IsSetCookie)) + Len(cookie_calls)
                 /\ SubSeq(e, Len(e) - Len(headers) + 1, Len(e)) = headers

C11_Witness ==
    /\ variant = "HTMLResponse"
    /\ Len(cookie_calls) = 2
    /\ cookie_calls[1].key = cookie_calls[2].key
    /\ cookie_calls[1].op = "set"
    /\ cookie_calls[2].op = "delete"
    /\ args.headers # <<>>
    /\ pc = "done"
    /\ Len(SelectSeq(sent[1].headers, IsSetCookie)) = 3

(***************************************************************************)
(* C12 (as claimed): delete_cookie(key, path, domain) appends a set-cookie *)
(* entry for the key with an empty value, Max-Age=0 and an Expires         *)
(* attribute that is the epoch-0 instant, whatever the time of the call.   *)
(***************************************************************************)
C12_DeleteExpiresAtEpoch ==
    \A i \in 1..Len(cookie_calls) :
        LET c == cookie_calls[i]
        IN  c.op = "delete" =>
              headers[Len(c.before) + 1] =
                  <<"set-cookie",
                    CookieOutput(c.key, "", <<0>>, GetDate(0), c.path, c.domain,
                                 FALSE, FALSE)>>

(***************************************************************************)
(* C13: a TemplateResponse sends the http.response.template event, with    *)
(* the template name and the context, exactly when the extensions of the   *)
(* scope advertise it: once, and before the start event.  Either way the   *)
(* start event and one body event with the rendered, encoded template      *)
(* follow, and the template is rendered before anything is sent.           *)
(***************************************************************************)
IsTemplateEvent(e) == e.type = "http.response.template"

C13_Advertised == "http.response.template" \in scope.extensions

C13_Body == Encode(scope.app.text, charset)

C13_Events ==
    (IF C13_Advertised
     THEN << [type |-> "http.response.template",
              keys |-> {"type", "template", "context"},
              status |-> 0, headers |-> <<>>, body |-> <<>>, more_body |-> FALSE,
              template |-> template.name, context |-> template.context] >>
     ELSE <<>>)
    \o << StartEvent(status_code,
                     build_headers(headers, media_type, charset, TRUE, C13_Body)),
          [type |-> "http.response.body", keys |-> {"type", "body"},
           status |-> 0, headers |-> <<>>, body |-> C13_Body, more_body |-> FALSE,
           template |-> "", context |-> ""] >>

C13_TemplateEvent ==
    variant = "TemplateResponse" =>
        /\ IsPrefix(sent, C13_Events)
        /\ Len(SelectSeq(sent, IsTemplateEvent)) <= 1
        /\ SelectSeq(sent, IsTemplateEvent) # <<>> => C13_Advertised
        /\ (C13_Advertised /\ sent # <<>>) => IsTemplateEvent(sent[1])
        /\ BodySent => sent = C13_Events
        /\ sent # <<>> => (scope.app.ok /\ body = C13_Body)
        /\ err \in {"TemplateError", "UnicodeEncodeError"} => sent = <<>>

C13_Witness ==
    /\ variant = "TemplateResponse"
    /\ C13_Advertised
    /\ charset = "latin-1"
    /\ scope.app.text = <<233>>
    /\ pc = "done"
    /\ Len(sent) = 3
    /\ IsTemplateEvent(sent[1]) /\ IsStart(sent[2]) /\ sent[3].body = <<233>>

(***************************************************************************)
(* C14 (as claimed): a JSONResponse or UJSONResponse whose content holds   *)
(* NaN or an infinity fails in render, before any event is sent, and never *)
(* emits a NaN or Infinity token.                                          *)
(***************************************************************************)
C14_NonFiniteFails ==
    (/\ variant \in JsonClasses
     /\ ~JsonFinite(content)
     /\ pc # "constructed") =>
        /\ pc = "failed"
        /\ err \in {"ValueError", "OverflowError", "AssertionError"}
        /\ sent = <<>>

(***************************************************************************)
(* C15: when the producer of a StreamingResponse raises after k chunks,    *)
(* the exception leaves the emission call; the start event and k body      *)
(* events with more_body true have been sent, no body event with more_body *)
(* false is ever sent, nothing that was sent is taken back, the producer   *)
(* is not asked again and the background task is not invoked.              *)
(***************************************************************************)
C15_State ==
    (variant = "StreamingResponse" /\ body_iterator.raises) =>
        /\ \A i \in 1..Len(sent) : ~IsFinalBody(sent[i])
        /\ bg_calls = 0
        /\ pc \notin {"send_last", "background", "done"}
        /\ pc = "failed" => err \in {"ProducerError", "SendError"}
        /\ err = "ProducerError" =>
             /\ pc = "failed"
             /\ body_iterator.chunks = <<>>
             /\ Len(sent) = Len(content.val) + 1
             /\ IsStart(sent[1])
             /\ \A i \in 2..Len(sent) :
                  /\ IsBody(sent[i])
                  /\ sent[i].more_body
                  /\ sent[i].body = C2_Chunk(content.val[i - 1])

C15_ProducerRaises ==
    /\ []C15_State
    /\ [][/\ IsPrefix(sent, sent')
          /\ err = "ProducerError" => (sent' = sent /\ body_iterator' = body_iterator)]_vars

C15_Witness ==
    /\ variant = "StreamingResponse"
    /\ body_iterator.raises
    /\ background = "ok"
    /\ Len(content.val) = MaxChunks
    /\ err = "ProducerError"
    /\ pc = "failed"
    /\ Len(sent) = MaxChunks + 1

(***************************************************************************)
(* C16: protocol well-formedness, for every variant.  An emission whose    *)
(* every send was accepted has sent exactly one start event, before every  *)
(* body event; every body event but the last has more_body true; exactly   *)
(* one body event has more_body false or absent, and it is the last event  *)
(* sent.  In every prefix of every emission, failed ones included, no body *)
(* event precedes the start event and no event follows a final body event. *)
(***************************************************************************)
\* the events of the response protocol among the events sent
ProtocolEvents == SelectSeq(sent, LAMBDA e : IsStart(e) \/ IsBody(e))

C16_Complete ==
    LET p == ProtocolEvents
    IN  /\ Len(StartEvents) = 1
        /\ Len(p) >= 2
        /\ IsStart(p[1])
        /\ \A i \in 2..Len(p) : IsBody(p[i])
        /\ \A i \in 2..(Len(p) - 1) : ~IsFinalBody(p[i])
        /\ IsFinalBody(p[Len(p)])
        /\ Len(SelectSeq(sent, IsFinalBody)) = 1
        /\ sent[Len(sent)] = p[Len(p)]

C16_Prefix ==
    /\ \A i, j \in 1..Len(sent) : (i < j /\ IsBody(sent[i])) => ~IsStart(sent[j])
    /\ \A i \in 1..Len(sent) : IsFinalBody(sent[i]) => i = Len(sent)
    /\ Len(StartEvents) <= 1
    /\ \A i \in 1..Len(sent) : IsBody(sent[i]) => Len(StartEvents) = 1

C16_WellFormed ==
    /\ BodySent => C16_Complete
    /\ C16_Prefix

C16_Witness ==
    /\ variant = "FileResponse"
    /\ ~send_header_only
    /\ pc = "done"
    /\ Len(BodyEvents) >= 3
    /\ C16_Complete

(***************************************************************************)
(* C17 (as claimed): for a file response that is not header-only and has   *)
(* no caller-set Content-Length, once the emission has completed the byte  *)
(* lengths of the body events add up to the Content-Length of the start    *)
(* event, also when the file changes between the stat and the reads.       *)
(***************************************************************************)
C17_LengthAgreement ==
    (/\ variant = "FileResponse"
     /\ ~send_header_only
     /\ Entries(args.headers, "content-length") = {}
     /\ pc = "done") =>
        /\ Len(StartEvents) = 1
        /\ Entries(StartEvents[1].headers, "content-length") # {}
        /\ ValueOf(StartEvents[1].headers, "content-length")
               = Str(Len(C3_Concat(BodyEvents)))

(***************************************************************************)
(* C18: two response instances emitted concurrently, with a switch         *)
(* possible at every await, each deliver to their own `send` the events    *)
(* they deliver when run alone, chunks in order; a step of one emission    *)
(* leaves every attribute and local of the other as it was.                *)
(***************************************************************************)
C18_Body(r) == IF r.content.kind = "text" THEN Encode(r.content.val, "utf-8")
                                          ELSE r.content.val

\* the events of a Response run alone
C18_ResponseEvents(r) ==
    << StartEvent(r.status_code,
                  build_headers(r.headers, r.media_type, "utf-8", TRUE, C18_Body(r))),
       BodyEvent(C18_Body(r)) >>

\* the i-th event of a StreamingResponse run alone
C18_StreamingEvent(r, i) ==
    IF i = 1
    THEN StartEvent(r.status_code,
                    build_headers(r.headers, r.media_type, r.charset, FALSE, <<>>))
    ELSE IF i - 1 <= Len(r.content.val)
    THEN BodyEventMore(C2_Chunk(r.content.val[i - 1]), TRUE)
    ELSE BodyEventMore(<<>>, FALSE)

\* the i-th event of a FileResponse run alone
C18_FileEvent(r, i) ==
    LET size == Len(r.path.data)
        full == size \div r.chunk_size
    IN  IF i = 1
        THEN StartEvent(r.status_code,
                        build_headers(r.headers, r.media_type, r.charset, FALSE, <<>>))
        ELSE IF i - 1 <= full
        THEN BodyEventMore([k \in 1..r.chunk_size |->
                                r.path.data[(i - 2) * r.chunk_size + k]], TRUE)
        ELSE BodyEventMore([k \in 1..(size % r.chunk_size) |->
                                r.path.data[full * r.chunk_size + k]], FALSE)

C18_Alone(r) ==
    LET complete == r.pc \in {"background", "done"}
    IN  CASE r.variant = "Response" ->
               /\ IsPrefix(r.sent, C18_ResponseEvents(r))
               /\ complete => Len(r.sent) = 2
          [] r.variant = "StreamingResponse" ->
               /\ Len(r.sent) <= Len(r.content.val) + 2
               /\ \A i \in 1..Len(r.sent) : r.sent[i] = C18_StreamingEvent(r, i)
               /\ complete => Len(r.sent) = Len(r.content.val) + 2
          [] r.variant = "FileResponse" ->
               /\ Len(r.sent) <= Len(r.path.data) \div r.chunk_size + 2
               /\ \A i \in 1..Len(r.sent) : r.sent[i] = C18_FileEvent(r, i)
               /\ complete => Len(r.sent) = Len(r.path.data) \div r.chunk_size + 2
          [] OTHER -> r.sent = <<>>

C18_State ==
    other # <<>> => (C18_Alone(Snapshot) /\ C18_Alone(other))

C18_Independent ==
    /\ []C18_State
    /\ [][other # <<>> =>
            \/ other' = other
            \/ other' = Snapshot /\ Snapshot' = other]_vars

\* both emissions are under way, each between two of its chunks
C18_Witness ==
    /\ other # <<>>
    /\ variant = "StreamingResponse"
    /\ other.variant = "FileResponse"
    /\ pc = "send_chunk"
    /\ other.pc = "send_chunk"
    /\ Len(sent) >= 2
    /\ Len(other.sent) >= 2
    /\ chunk # other.chunk
====
